---- MODULE Spec2Model ----
(***************************************************************************)
(* Model of src/app.js: an Express server that demonstrates HTTP caching.  *)
(*   GET /                   index.html, no caching                        *)
(*   GET /test.css           forced cache   (Cache-Control)                *)
(*   GET /test.js            negotiated     (Last-Modified / If-Modified-  *)
(*                           Since)                                        *)
(*   GET /cache_policy.jpeg  negotiated     (Etag / If-None-Match) plus    *)
(*                           Cache-Control                                 *)
(* The file system and the clients are the environment.  A handler is an   *)
(* async function: its synchronous prefix runs when the request arrives,   *)
(* every continuation (readFile callback, stream event) is its own step.   *)
(* The handlers are registered on Express 4, which ignores the promise an  *)
(* async handler returns: a rejected handler sends nothing, and Node       *)
(* either only warns about the unhandled rejection or ends the process,    *)
(* depending on its --unhandled-rejections mode.                           *)
(***************************************************************************)
EXTENDS Integers, Sequences, FiniteSets, TLC

(* ------------------------------ bounds --------------------------------- *)
\* request slots; requests arrive in slot order
MaxReq == 2
\* a file is a sequence of stream chunks; at most MaxLen chunks
MaxLen == 2
\* chunk values 1..MaxByte
MaxByte == 1
\* the clock runs 0..MaxClock (in sub-second ticks)
MaxClock == 2
\* ticks per second (scaled down from 1000 ms)
TicksPerSec == 2
\* at most MaxVer modifications (write, unlink) of the assets
MaxVer == 2

(* ----------------------------- JS values ------------------------------- *)
\* a header slot: undefined, or a string
Undefined == [def |-> FALSE, str |-> ""]
Str(s) == [def |-> TRUE, str |-> s]
\* JavaScript's === between a header value and a string
StrictEq(h, s) == h.def /\ h.str = s

Chunks == 1..MaxByte
Contents == UNION {[1..n -> Chunks] : n \in 1..MaxLen}

(* ------------------------------ paths ---------------------------------- *)
IndexPath == "./assets/index.html"
CssPath == "./assets/test.css"
JsPath == "./assets/test.js"
JpegPath == "./assets/cache_policy.jpeg"
Paths == {IndexPath, CssPath, JsPath, JpegPath}

RouteIndex == "/"
RouteCss == "/test.css"
RouteJs == "/test.js"
RouteJpeg == "/cache_policy.jpeg"
Routes == {RouteIndex, RouteCss, RouteJs, RouteJpeg}

\* the file each handler reads
PathOf(route) ==
  CASE route = RouteIndex -> IndexPath
    [] route = RouteCss -> CssPath
    [] route = RouteJs -> JsPath
    [] OTHER -> JpegPath

(* --------------------------- conversions ------------------------------- *)
HexDigit == <<"0", "1", "2", "3", "4", "5", "6", "7", "8", "9", "a", "b", "c", "d", "e", "f">>

RECURSIVE Hex(_)
\* hash.digest("hex"): the digest value written in lower-case hexadecimal
Hex(n) == IF n < 16 THEN HexDigit[n + 1] ELSE Hex(n \div 16) \o HexDigit[(n % 16) + 1]

\* crypto.createHash("sha1"): the initial digest state
HashInit == 0
\* a slip in line 24: the digest keeps the last chunk only
HashUpdateLast(h, chunk) == chunk

\* hash.update(chunk): folds one chunk into the digest state.  The fold is
\* injective on Contents, which is all the claims use of SHA-1.
HashUpdate(h, chunk) == h * (MaxByte + 1) + chunk

RECURSIVE HashOf(_)
\* the digest state after streaming a whole content through HashUpdate
HashOf(b) == IF b = <<>> THEN HashInit ELSE HashUpdate(HashOf(SubSeq(b, 1, Len(b) - 1)), b[Len(b)])

\* the Etag a content gets: getFileHash run over an unchanging file
Digest(b) == Hex(HashOf(b))

\* a slip in line 71: a format that stops at the minute
ToUTCStringMinutes(t) == "Thu, 01 Jan 1970 00:00 GMT"

\* new Date(stat.ctime).toUTCString(): the tick count cut to whole seconds
\* and written as an HTTP date
ToUTCString(t) == "Thu, 01 Jan 1970 00:00:0" \o ToString(t \div TicksPerSec) \o " GMT"

\* what a client may send: nothing, a string that is no validator, or any
\* validator of the kind the header carries
Garbage == "garbage"
ImsValues == {Undefined, Str(Garbage)} \cup {Str(ToUTCString(t)) : t \in 0..MaxClock}
InmValues == {Undefined, Str(Garbage)} \cup {Str(Digest(b)) : b \in Contents}

(* ------------------------------ state ---------------------------------- *)
VARIABLES
  fs,      \* path -> [exists, bytes, ctime, ver]
  clock,   \* the file system's clock, in ticks
  reqs,    \* request slot -> the request, its handler's locals, its response
  up,      \* the Node process is running
  mode     \* --unhandled-rejections: "warn" or "throw"

vars == <<fs, clock, reqs, up, mode>>

Slots == 1..MaxReq

\* a fresh ServerResponse: statusCode 200, no headers, nothing sent
NewRes ==
  [statusCode |-> 200, ct |-> Undefined, lm |-> Undefined, etag |-> Undefined,
   cc |-> Undefined, headersSent |-> FALSE, body |-> <<>>, ended |-> FALSE]

\* an unused request slot
NoReq ==
  [route |-> "", ims |-> Undefined, inm |-> Undefined, pc |-> "idle",
   stat |-> -1, ctime |-> "", hash |-> HashInit, fileHash |-> "",
   hstream |-> "none", hpos |-> 0, bstream |-> "none", bpos |-> 0,
   res |-> NewRes, err |-> "",
   prior |-> {}, at |-> 0, ver0 |-> 0, verV |-> 0, verB0 |-> 0, verE |-> 0]

\* positions at which a handler still has a continuation pending
Pending == {"read", "hash_open", "hash_data", "body_open", "body_data"}

Init ==
  /\ fs = [p \in Paths |->
             [exists |-> TRUE, bytes |-> [i \in 1..MaxLen |-> 1], ctime |-> 0,
              ver |-> 0]]
  /\ clock = 0
  /\ reqs = [r \in Slots |-> NoReq]
  /\ up = TRUE
  /\ mode \in {"warn", "throw"}

(* ------------------------- failures, responses ------------------------- *)
\* what the device answers a read: "" (success) or an I/O error
IoResults == {"", "EIO"}

\* the error an fs call by path on f gets now ("" when it succeeds)
ReadErr(f, io) == IF ~fs[f].exists THEN "ENOENT" ELSE io

\* the process ends: every connection is dropped, every descriptor closed
Exit(rs) ==
  [i \in Slots |->
     IF rs[i].pc \in Pending
       THEN [rs[i] EXCEPT !.pc = "aborted",
                          !.hstream = IF @ = "open" THEN "closed" ELSE @,
                          !.bstream = IF @ = "open" THEN "closed" ELSE @]
       ELSE rs[i]]

\* a handler that catches the error and answers "not modified"
RejectAsUnchanged(r, q, e) ==
  /\ reqs' = [reqs EXCEPT ![r] =
                [q EXCEPT !.err = e, !.pc = "done",
                          !.hstream = IF @ = "open" THEN "closed" ELSE @,
                          !.res = [@ EXCEPT !.statusCode = 304, !.headersSent = TRUE,
                                            !.ended = TRUE]]]
  /\ up' = up

\* the async handler of request r, in state q, rejects with error e: nothing
\* catches it.  Node warns and leaves the request without a response, or
\* ends the process.
Reject(r, q, e) ==
  LET f == [q EXCEPT !.err = e,
                     !.hstream = IF @ = "open" THEN "closed" ELSE @]
  IN  IF mode = "throw"
        THEN /\ reqs' = Exit([reqs EXCEPT ![r] = [f EXCEPT !.pc = "aborted"]])
             /\ up' = FALSE
        ELSE /\ reqs' = [reqs EXCEPT ![r] = [f EXCEPT !.pc = "hung"]]
             /\ up' = up

\* a slip at line 116: an 'error' listener that only notes the error, so the
\* stream and the pipe carry on
UncaughtSwallowed(r, e) ==
  /\ reqs' = [reqs EXCEPT ![r] = [@ EXCEPT !.err = e]]
  /\ up' = up

\* an 'error' event on a stream nobody listens to: an uncaught exception,
\* which ends the process whatever the rejection mode
Uncaught(r, e) ==
  /\ reqs' = Exit([reqs EXCEPT ![r] =
                     [@ EXCEPT !.err = e, !.pc = "aborted",
                               !.bstream = IF @ = "open" THEN "closed" ELSE @]])
  /\ up' = FALSE

\* res.end(data)
End(res, data) ==
  [res EXCEPT !.headersSent = TRUE, !.body = @ \o data, !.ended = TRUE]

\* res.write(chunk), as imgStream.pipe(res) calls it for every chunk
WriteChunk(res, chunk) ==
  [res EXCEPT !.headersSent = TRUE, !.body = Append(@, chunk)]

\* the slot the next request takes
NextSlot(r) == /\ reqs[r].pc = "idle"
               /\ \A i \in Slots : i < r => reqs[i].pc # "idle"

\* an inbound GET as Express hands it to the route's handler
NewReq(route, ims, inm) ==
  [NoReq EXCEPT !.route = route, !.ims = ims, !.inm = inm,
                !.prior = {i \in Slots : reqs[i].pc = "done"},
                !.at = clock,
                !.ver0 = fs[PathOf(route)].ver,
                !.verV = fs[PathOf(route)].ver,
                !.verB0 = fs[PathOf(route)].ver,
                !.verE = fs[PathOf(route)].ver]

(* ------------------------------ GET / ---------------------------------- *)
\* app.get("/"): the handler starts asyncReadFile and awaits it
GetIndex(r, ims, inm) ==
  /\ up /\ NextSlot(r)
  /\ reqs' = [reqs EXCEPT ![r] = [NewReq(RouteIndex, ims, inm) EXCEPT !.pc = "read"]]
  /\ UNCHANGED <<fs, clock, up, mode>>

\* the readFile callback of GET /
ReadIndex(r, io) ==
  /\ up /\ reqs[r].route = RouteIndex /\ reqs[r].pc = "read"
  /\ IF ReadErr(IndexPath, io) # ""
       THEN Reject(r, reqs[r], ReadErr(IndexPath, io))
       ELSE /\ reqs' = [reqs EXCEPT ![r] =
                          [@ EXCEPT !.res = End([@ EXCEPT !.ct = Str("text/html")],
                                                fs[IndexPath].bytes),
                                    !.verE = fs[IndexPath].ver,
                                    !.pc = "done"]]
            /\ up' = up
  /\ UNCHANGED <<fs, clock, mode>>

(* ---------------------------- GET /test.css ---------------------------- *)
\* app.get("/test.css"): the handler starts asyncReadFile and awaits it
GetCss(r, ims, inm) ==
  /\ up /\ NextSlot(r)
  /\ reqs' = [reqs EXCEPT ![r] = [NewReq(RouteCss, ims, inm) EXCEPT !.pc = "read"]]
  /\ UNCHANGED <<fs, clock, up, mode>>

\* a slip in line 53: the window of the other route
CssHeadersTen(res) == [res EXCEPT !.ct = Str("text/css"), !.cc = Str("public, max-age=10")]

\* lines 52-53: the two headers of the forced cache
CssHeaders(res) == [res EXCEPT !.ct = Str("text/css"), !.cc = Str("public,max-age=30")]

\* the readFile callback of GET /test.css
ReadCss(r, io) ==
  /\ up /\ reqs[r].route = RouteCss /\ reqs[r].pc = "read"
  /\ IF ReadErr(CssPath, io) # ""
       THEN Reject(r, reqs[r], ReadErr(CssPath, io))
       ELSE /\ reqs' = [reqs EXCEPT ![r] =
                          [@ EXCEPT !.res = End(CssHeaders(@), fs[CssPath].bytes),
                                    !.verE = fs[CssPath].ver,
                                    !.pc = "done"]]
            /\ up' = up
  /\ UNCHANGED <<fs, clock, mode>>

(* ---------------------------- GET /test.js ----------------------------- *)
\* a slip in line 76: the two values are compared as parsed dates, and a
\* value that does not parse compares as equal
JsUnchangedUnparsed(ims, ctime) ==
  \/ StrictEq(ims, ctime)
  \/ ims.def /\ ims.str \notin {ToUTCString(t) : t \in 0..MaxClock}

\* a slip in line 76: !== for ===
JsUnchangedInverted(ims, ctime) == ~StrictEq(ims, ctime)

\* a slip in line 76: any If-Modified-Since at all counts as a match
JsUnchangedAnyHeader(ims, ctime) == ims.def

\* a slip in line 75: the header is read under a misspelt name and is never
\* there
JsUnchangedNever(ims, ctime) == FALSE

\* the comparison of line 76
JsUnchanged(ims, ctime) == StrictEq(ims, ctime)

\* lines 72-73: Content-Type and the validator header
JsHeaders(res, ctime) == [res EXCEPT !.ct = Str("text/javascript"), !.lm = Str(ctime)]

\* app.get("/test.js") up to its await: statSync, the two headers, the
\* comparison, and either the 304 or the start of asyncReadFile
GetJs(r, ims, inm, io) ==
  /\ up /\ NextSlot(r)
  /\ IF ReadErr(JsPath, io) # ""
       THEN Reject(r, NewReq(RouteJs, ims, inm), ReadErr(JsPath, io))
       ELSE LET ctime == ToUTCString(fs[JsPath].ctime)
                q == [NewReq(RouteJs, ims, inm) EXCEPT
                        !.stat = fs[JsPath].ctime,
                        !.ctime = ctime,
                        !.res = JsHeaders(@, ctime)]
            IN  /\ reqs' = [reqs EXCEPT ![r] =
                              IF JsUnchanged(ims, ctime)
                                THEN [q EXCEPT !.res = End([@ EXCEPT !.statusCode = 304], <<>>),
                                               !.pc = "done"]
                                ELSE [q EXCEPT !.pc = "read"]]
                /\ up' = up
  /\ UNCHANGED <<fs, clock, mode>>

\* the readFile callback of GET /test.js
ReadJs(r, io) ==
  /\ up /\ reqs[r].route = RouteJs /\ reqs[r].pc = "read"
  /\ IF ReadErr(JsPath, io) # ""
       THEN Reject(r, reqs[r], ReadErr(JsPath, io))
       ELSE /\ reqs' = [reqs EXCEPT ![r] =
                          [@ EXCEPT !.res = End(@, fs[JsPath].bytes),
                                    !.verE = fs[JsPath].ver,
                                    !.pc = "done"]]
            /\ up' = up
  /\ UNCHANGED <<fs, clock, mode>>

(* ----------------------- GET /cache_policy.jpeg ------------------------ *)
\* a slip in line 110: the handler trusts whatever validator the client holds
JpegUnchangedAnyHeader(inm, fileHash) == inm.def

\* a slip in line 110: a loose comparison that lets an absent header match
JpegUnchangedLoose(inm, fileHash) == ~inm.def \/ inm.str = fileHash

\* the comparison of line 110
JpegUnchanged(inm, fileHash) == StrictEq(inm, fileHash)

\* line 109: the forced-cache window of the route, in seconds
JpegMaxAge == 10

\* a slip in lines 108-109: the Etag is left out
JpegHeadersNoEtag(res, fileHash) == [res EXCEPT !.cc = Str("public, max-age=10")]

\* lines 108-109: the validator header and the forced-cache window
JpegHeaders(res, fileHash) ==
  [res EXCEPT !.etag = Str(fileHash), !.cc = Str("public, max-age=10")]

\* a slip in line 21: the hash object lives at module scope, so a request
\* starts from the digest state a request in flight has reached
GetJpegSharedHash(r, ims, inm) ==
  /\ up /\ NextSlot(r)
  /\ reqs' = [reqs EXCEPT ![r] =
                [NewReq(RouteJpeg, ims, inm) EXCEPT
                   !.res = [@ EXCEPT !.ct = Str("image/jpeg")],
                   !.hash = IF \E i \in Slots : reqs[i].pc = "hash_data"
                              THEN reqs[CHOOSE i \in Slots : reqs[i].pc = "hash_data"].hash
                              ELSE HashInit,
                   !.pc = "hash_open"]]
  /\ UNCHANGED <<fs, clock, up, mode>>

\* app.get("/cache_policy.jpeg") up to its await: Content-Type is set and
\* getFileHash creates the hash and the read stream
GetJpeg(r, ims, inm) ==
  /\ up /\ NextSlot(r)
  /\ reqs' = [reqs EXCEPT ![r] =
                [NewReq(RouteJpeg, ims, inm) EXCEPT
                   !.res = [@ EXCEPT !.ct = Str("image/jpeg")],
                   !.hash = HashInit,
                   !.pc = "hash_open"]]
  /\ UNCHANGED <<fs, clock, up, mode>>

\* getFileHash: the stream opens the file, or emits 'error' and the promise
\* rejects
HashOpen(r, io) ==
  /\ up /\ reqs[r].pc = "hash_open"
  /\ IF ReadErr(JpegPath, io) # ""
       THEN Reject(r, reqs[r], ReadErr(JpegPath, io))
       ELSE /\ reqs' = [reqs EXCEPT ![r] =
                          [@ EXCEPT !.hstream = "open", !.hpos = 0, !.pc = "hash_data"]]
            /\ up' = up
  /\ UNCHANGED <<fs, clock, mode>>

\* getFileHash: a 'data' event, hash.update(chunk); or the read fails
HashData(r, io) ==
  /\ up /\ reqs[r].pc = "hash_data"
  /\ reqs[r].hpos < Len(fs[JpegPath].bytes)
  /\ IF io # ""
       THEN Reject(r, reqs[r], io)
       ELSE /\ reqs' = [reqs EXCEPT ![r] =
                          [@ EXCEPT !.hash = HashUpdate(@, fs[JpegPath].bytes[reqs[r].hpos + 1]),
                                    !.hpos = @ + 1]]
            /\ up' = up
  /\ UNCHANGED <<fs, clock, mode>>

\* getFileHash: the 'end' event resolves the promise with hash.digest("hex");
\* the handler resumes: Etag, Cache-Control, the comparison, and either the
\* 304 or a second read stream piped into the response
HashEnd(r, io) ==
  /\ up /\ reqs[r].pc = "hash_data"
  /\ reqs[r].hpos >= Len(fs[JpegPath].bytes)
  /\ IF io # ""
       THEN Reject(r, reqs[r], io)
       ELSE LET fileHash == Hex(reqs[r].hash)
                q == [reqs[r] EXCEPT
                        !.hstream = "closed",
                        !.fileHash = fileHash,
                        !.verV = fs[JpegPath].ver,
                        !.verB0 = fs[JpegPath].ver,
                        !.verE = fs[JpegPath].ver,
                        !.res = JpegHeaders(@, fileHash)]
            IN  /\ reqs' = [reqs EXCEPT ![r] =
                              IF JpegUnchanged(q.inm, fileHash)
                                THEN [q EXCEPT !.res = End([@ EXCEPT !.statusCode = 304], <<>>),
                                               !.pc = "done"]
                                ELSE [q EXCEPT !.pc = "body_open"]]
                /\ up' = up
  /\ UNCHANGED <<fs, clock, mode>>

\* imgStream opens the file; its 'error' event has no listener
BodyOpen(r, io) ==
  /\ up /\ reqs[r].pc = "body_open"
  /\ IF ReadErr(JpegPath, io) # ""
       THEN Uncaught(r, ReadErr(JpegPath, io))
       ELSE /\ reqs' = [reqs EXCEPT ![r] =
                          [@ EXCEPT !.bstream = "open", !.bpos = 0,
                                    !.verB0 = fs[JpegPath].ver,
                                    !.pc = "body_data"]]
            /\ up' = up
  /\ UNCHANGED <<fs, clock, mode>>

\* imgStream.pipe(res): a chunk is read and written to the response
BodyData(r, io) ==
  /\ up /\ reqs[r].pc = "body_data"
  /\ reqs[r].bpos < Len(fs[JpegPath].bytes)
  /\ IF io # ""
       THEN Uncaught(r, io)
       ELSE /\ reqs' = [reqs EXCEPT ![r] =
                          [@ EXCEPT !.res = WriteChunk(@, fs[JpegPath].bytes[reqs[r].bpos + 1]),
                                    !.bpos = @ + 1]]
            /\ up' = up
  /\ UNCHANGED <<fs, clock, mode>>

\* imgStream.pipe(res): the stream ends, is closed, and pipe ends the response
BodyEnd(r, io) ==
  /\ up /\ reqs[r].pc = "body_data"
  /\ reqs[r].bpos >= Len(fs[JpegPath].bytes)
  /\ IF io # ""
       THEN Uncaught(r, io)
       ELSE /\ reqs' = [reqs EXCEPT ![r] =
                          [@ EXCEPT !.res = End(@, <<>>),
                                    !.bstream = "closed",
                                    !.verE = fs[JpegPath].ver,
                                    !.pc = "done"]]
            /\ up' = up
  /\ UNCHANGED <<fs, clock, mode>>

\* the client closes the connection while the body is piped: pipe unpipes
\* the response and leaves imgStream as it is
ClientClose(r) ==
  /\ up /\ reqs[r].pc = "body_data"
  /\ reqs' = [reqs EXCEPT ![r] = [@ EXCEPT !.pc = "client_gone"]]
  /\ UNCHANGED <<fs, clock, up, mode>>

(* ---------------------------- environment ------------------------------ *)
\* modifications made to the assets so far
Mods == fs[IndexPath].ver + fs[CssPath].ver + fs[JsPath].ver + fs[JpegPath].ver

\* the file is overwritten in place with content b, dt ticks after the
\* latest modification (dt >= 1: the clock has moved on)
WriteFile(f, b, dt) ==
  /\ up /\ fs[f].exists /\ Mods < MaxVer
  /\ b # fs[f].bytes
  /\ clock + dt <= MaxClock
  /\ clock' = clock + dt
  /\ fs' = [fs EXCEPT ![f] = [@ EXCEPT !.bytes = b, !.ctime = clock + dt, !.ver = @ + 1]]
  /\ UNCHANGED <<reqs, up, mode>>

\* the file is removed; streams that have it open keep reading it
Unlink(f) ==
  /\ up /\ fs[f].exists /\ Mods < MaxVer
  /\ fs' = [fs EXCEPT ![f] = [@ EXCEPT !.exists = FALSE, !.ver = @ + 1]]
  /\ UNCHANGED <<clock, reqs, up, mode>>

(* ---------------------------- specifications --------------------------- *)
\* GET /test.js alone
NextJs ==
  \/ \E r \in Slots, ims \in ImsValues, inm \in {Undefined}, io \in IoResults : GetJs(r, ims, inm, io)
  \/ \E r \in Slots, io \in IoResults : ReadJs(r, io)
  \/ \E b \in Contents, dt \in 1..MaxClock : WriteFile(JsPath, b, dt)
  \/ Unlink(JsPath)

SpecJs == Init /\ [][NextJs]_vars

\* GET /cache_policy.jpeg alone
NextJpeg ==
  \/ \E r \in Slots, ims \in {Undefined}, inm \in InmValues : GetJpeg(r, ims, inm)
  \/ \E r \in Slots, io \in IoResults : HashOpen(r, io)
  \/ \E r \in Slots, io \in IoResults : HashData(r, io)
  \/ \E r \in Slots, io \in IoResults : HashEnd(r, io)
  \/ \E r \in Slots, io \in IoResults : BodyOpen(r, io)
  \/ \E r \in Slots, io \in IoResults : BodyData(r, io)
  \/ \E r \in Slots, io \in IoResults : BodyEnd(r, io)
  \/ \E r \in Slots : ClientClose(r)
  \/ \E b \in Contents : WriteFile(JpegPath, b, 1)
  \/ Unlink(JpegPath)

SpecJpeg == Init /\ [][NextJpeg]_vars

\* the two routes without validation: GET / and GET /test.css
NextStatic ==
  \/ \E r \in Slots : GetIndex(r, Undefined, Undefined)
  \/ \E r \in Slots, io \in IoResults : ReadIndex(r, io)
  \/ \E r \in Slots, ims \in ImsValues, inm \in InmValues : GetCss(r, ims, inm)
  \/ \E r \in Slots, io \in IoResults : ReadCss(r, io)
  \/ \E f \in {IndexPath, CssPath}, b \in Contents : WriteFile(f, b, 1)
  \/ \E f \in {IndexPath, CssPath} : Unlink(f)

SpecStatic == Init /\ [][NextStatic]_vars

\* no request in flight
Quiet == \A i \in Slots : reqs[i].pc \notin Pending

\* the two validated routes, served to a client that sends its next request
\* once the previous one is over
NextSeq ==
  \/ \E r \in Slots, ims \in ImsValues, io \in IoResults : Quiet /\ GetJs(r, ims, Undefined, io)
  \/ \E r \in Slots, io \in IoResults : ReadJs(r, io)
  \/ \E r \in Slots, inm \in InmValues : Quiet /\ GetJpeg(r, Undefined, inm)
  \/ \E r \in Slots, io \in IoResults : HashOpen(r, io)
  \/ \E r \in Slots, io \in IoResults : HashData(r, io)
  \/ \E r \in Slots, io \in IoResults : HashEnd(r, io)
  \/ \E r \in Slots, io \in IoResults : BodyOpen(r, io)
  \/ \E r \in Slots, io \in IoResults : BodyData(r, io)
  \/ \E r \in Slots, io \in IoResults : BodyEnd(r, io)
  \/ \E r \in Slots : ClientClose(r)
  \/ \E f \in {JsPath, JpegPath}, b \in Contents, dt \in 1..MaxClock : WriteFile(f, b, dt)
  \/ \E f \in {JsPath, JpegPath} : Unlink(f)

SpecSeq == Init /\ [][NextSeq]_vars

\* the three cached routes served concurrently, to clients that send no
\* validator or the one of the assets as first deployed
NextMix ==
  \/ \E r \in Slots : GetCss(r, Undefined, Undefined)
  \/ \E r \in Slots, io \in IoResults : ReadCss(r, io)
  \/ \E r \in Slots, ims \in {Undefined, Str(ToUTCString(0))}, io \in IoResults :
        GetJs(r, ims, Undefined, io)
  \/ \E r \in Slots, io \in IoResults : ReadJs(r, io)
  \/ \E r \in Slots, inm \in {Undefined, Str(Digest([i \in 1..MaxLen |-> 1]))} :
        GetJpeg(r, Undefined, inm)
  \/ \E r \in Slots, io \in IoResults : HashOpen(r, io)
  \/ \E r \in Slots, io \in IoResults : HashData(r, io)
  \/ \E r \in Slots, io \in IoResults : HashEnd(r, io)
  \/ \E r \in Slots, io \in IoResults : BodyOpen(r, io)
  \/ \E r \in Slots, io \in IoResults : BodyData(r, io)
  \/ \E r \in Slots, io \in IoResults : BodyEnd(r, io)
  \/ \E f \in {CssPath, JsPath, JpegPath}, b \in Contents : WriteFile(f, b, 1)

SpecMix == Init /\ [][NextMix]_vars

\* the continuation request r is waiting for: the event loop runs it once
\* its read has come back
Continue(r) ==
  \E io \in IoResults :
    \/ ReadCss(r, io) \/ ReadJs(r, io)
    \/ HashOpen(r, io) \/ HashData(r, io) \/ HashEnd(r, io)
    \/ BodyOpen(r, io) \/ BodyData(r, io) \/ BodyEnd(r, io)

\* the three cached routes served concurrently from unchanging assets to
\* clients that stay connected
NextLive ==
  \/ \E r \in Slots : GetCss(r, Undefined, Undefined)
  \/ \E r \in Slots, io \in IoResults : ReadCss(r, io)
  \/ \E r \in Slots, ims \in {Undefined, Str(ToUTCString(0))}, io \in IoResults :
        GetJs(r, ims, Undefined, io)
  \/ \E r \in Slots, io \in IoResults : ReadJs(r, io)
  \/ \E r \in Slots, inm \in {Undefined, Str(Digest([i \in 1..MaxLen |-> 1]))} :
        GetJpeg(r, Undefined, inm)
  \/ \E r \in Slots, io \in IoResults : HashOpen(r, io)
  \/ \E r \in Slots, io \in IoResults : HashData(r, io)
  \/ \E r \in Slots, io \in IoResults : HashEnd(r, io)
  \/ \E r \in Slots, io \in IoResults : BodyOpen(r, io)
  \/ \E r \in Slots, io \in IoResults : BodyData(r, io)
  \/ \E r \in Slots, io \in IoResults : BodyEnd(r, io)

\* every pending callback is run in the end
SpecLive == Init /\ [][NextLive]_vars /\ \A r \in Slots : WF_vars(Continue(r))

(* ------------------------------- claims -------------------------------- *)
JsFile == fs[JsPath]
JpegFile == fs[JpegPath]

\* C1 (under SpecJpeg).  On GET /cache_policy.jpeg, for every request whose
\* digest pass succeeded: if If-None-Match is string-equal to the computed
\* digest the response is complete, 304 and empty; for any other value, or
\* none, the status is 200 and the completed response carries the resource's
\* bytes (compared with the file while it is unmodified since the body
\* stream opened).  A 304 is sent in no other case.
C1_HashDecision ==
  \A r \in Slots :
    LET q == reqs[r] IN
    (q.route = RouteJpeg /\ q.fileHash # "") =>
      /\ q.inm = Str(q.fileHash) =>
            q.res.ended /\ q.res.statusCode = 304 /\ q.res.body = <<>>
      /\ q.inm # Str(q.fileHash) =>
            /\ q.res.statusCode = 200
            /\ (q.res.ended /\ JpegFile.ver = q.verB0) => q.res.body = JpegFile.bytes
      /\ q.res.statusCode = 304 => q.inm = Str(q.fileHash)

\* C1 witness: one request answered 304 on a matching If-None-Match, another
\* answered 200 with the resource's bytes on a value that does not match
C1_Witness ==
  \E r1, r2 \in Slots :
    /\ reqs[r1].route = RouteJpeg /\ reqs[r1].res.ended
    /\ reqs[r1].res.statusCode = 304 /\ reqs[r1].inm = Str(reqs[r1].fileHash)
    /\ reqs[r2].route = RouteJpeg /\ reqs[r2].res.ended
    /\ reqs[r2].inm.def /\ reqs[r2].inm.str # reqs[r2].fileHash
    /\ reqs[r2].fileHash # ""
    /\ reqs[r2].res.statusCode = 200 /\ reqs[r2].res.body = JpegFile.bytes
    /\ JpegFile.ver = reqs[r2].verB0

\* C2 (under SpecJs).  On GET /test.js, for every request whose statSync
\* succeeded: the timestamp compared is the file's ctime cut to the second
\* and written as a UTC string; if If-Modified-Since is string-equal to it
\* the response is complete, 304 and empty; for any other value (absent,
\* older, newer, any other string) the status is 200 and the completed
\* response carries the full body.  A 304 is sent in no other case.
C2_TimestampDecision ==
  \A r \in Slots :
    LET q == reqs[r] IN
    (q.route = RouteJs /\ q.ctime # "") =>
      /\ q.ctime = ToUTCString(q.stat)
      /\ (JsFile.ver = q.ver0) => q.stat = JsFile.ctime
      /\ q.ims = Str(ToUTCString(q.stat)) =>
            q.res.ended /\ q.res.statusCode = 304 /\ q.res.body = <<>>
      /\ q.ims # Str(ToUTCString(q.stat)) =>
            /\ q.res.statusCode = 200
            /\ (q.res.ended /\ JsFile.ver = q.verE) => q.res.body = JsFile.bytes
      /\ q.res.statusCode = 304 => q.ims = Str(ToUTCString(q.stat))

\* C2 witness: a 304 on the exact timestamp, and a 200 with the full body on
\* a timestamp of another second
C2_Witness ==
  \E r1, r2 \in Slots :
    /\ reqs[r1].route = RouteJs /\ reqs[r1].res.ended
    /\ reqs[r1].res.statusCode = 304 /\ reqs[r1].ims = Str(reqs[r1].ctime)
    /\ reqs[r2].route = RouteJs /\ reqs[r2].res.ended
    /\ reqs[r2].ims \in {Str(ToUTCString(t)) : t \in 0..MaxClock}
    /\ reqs[r2].ims # Str(reqs[r2].ctime)
    /\ reqs[r2].res.statusCode = 200 /\ reqs[r2].res.body = JsFile.bytes
    /\ JsFile.ver = reqs[r2].verE

\* C3 (under SpecJpeg).  Change detection by digest: a request that carries
\* the digest of bytes B1 other than the resource's bytes B2, with no write
\* from its arrival on, is answered 200 with body B2 and an Etag that is
\* the digest of B2 and differs from the value sent.
C3_HashChangeDetection ==
  \A r \in Slots :
    LET q == reqs[r] IN
    (/\ q.route = RouteJpeg /\ q.res.ended
     /\ JpegFile.ver = q.ver0
     /\ \E B1 \in Contents : B1 # JpegFile.bytes /\ q.inm = Str(Digest(B1))) =>
      /\ q.res.statusCode = 200
      /\ q.res.body = JpegFile.bytes
      /\ q.res.etag = Str(Digest(JpegFile.bytes))
      /\ q.res.etag # q.inm

\* C3 witness: the bytes were changed once, and a request that arrived after
\* the change with the digest of the original bytes has been answered
C3_Witness ==
  \E r \in Slots :
    /\ reqs[r].route = RouteJpeg /\ reqs[r].res.ended
    /\ reqs[r].ver0 = 1 /\ JpegFile.ver = 1 /\ JpegFile.exists
    /\ reqs[r].inm = Str(Digest([i \in 1..MaxLen |-> 1]))
    /\ JpegFile.bytes # [i \in 1..MaxLen |-> 1]
    /\ reqs[r].res.statusCode = 200

C5_RoundTrip ==
  /\ \A r \in Slots :
       LET q == reqs[r] IN
       q.res.ended =>
         /\ (q.route = RouteJs /\ ~q.ims.def) => (q.res.statusCode = 200 /\ q.res.lm.def)
         /\ (q.route = RouteJpeg /\ ~q.inm.def) => (q.res.statusCode = 200 /\ q.res.etag.def)
  /\ \A r1, r2 \in Slots :
       LET q1 == reqs[r1]
           q2 == reqs[r2] IN
       (r1 \in q2.prior /\ q1.route = q2.route /\ q2.verV = q1.ver0) =>
         /\ (q1.route = RouteJs /\ ~q1.ims.def /\ q2.ims = q1.res.lm /\ q2.ctime # "") =>
               (q2.res.ended /\ q2.res.statusCode = 304)
         /\ (q1.route = RouteJpeg /\ ~q1.inm.def /\ q2.inm = q1.res.etag /\ q2.fileHash # "") =>
               (q2.res.ended /\ q2.res.statusCode = 304)

\* C5 witness: a 200 with an Etag to a request without If-None-Match, then a
\* 304 to the request that echoes the Etag
C5_Witness ==
  \E r1, r2 \in Slots :
    /\ r1 \in reqs[r2].prior
    /\ reqs[r1].route = RouteJpeg /\ reqs[r2].route = RouteJpeg
    /\ ~reqs[r1].inm.def /\ reqs[r1].res.statusCode = 200 /\ reqs[r1].res.etag.def
    /\ reqs[r2].inm = reqs[r1].res.etag
    /\ reqs[r2].verV = reqs[r1].ver0
    /\ reqs[r2].res.ended /\ reqs[r2].res.statusCode = 304

\* the same round trip on GET /test.js
C5_WitnessJs ==
  \E r1, r2 \in Slots :
    /\ r1 \in reqs[r2].prior
    /\ reqs[r1].route = RouteJs /\ reqs[r2].route = RouteJs
    /\ ~reqs[r1].ims.def /\ reqs[r1].res.statusCode = 200 /\ reqs[r1].res.lm.def
    /\ reqs[r2].ims = reqs[r1].res.lm
    /\ reqs[r2].verV = reqs[r1].ver0
    /\ reqs[r2].res.ended /\ reqs[r2].res.statusCode = 304

\* C6 (under SpecSeq).  Every response whose headers have been sent carries
\* its validator: on GET /test.js Last-Modified is the UTC string of the
\* ctime statSync read for the request, on GET /cache_policy.jpeg Etag is
\* the hex digest computed for the request; while the file is unmodified
\* since the request arrived these are the file's own timestamp and digest.
C6_ValidatorOnEveryResponse ==
  \A r \in Slots :
    LET q == reqs[r] IN
    q.res.headersSent =>
      /\ q.res.statusCode \in {200, 304}
      /\ q.route = RouteJs =>
            /\ q.stat >= 0 /\ q.res.lm = Str(ToUTCString(q.stat))
            /\ JsFile.ver = q.ver0 => q.res.lm = Str(ToUTCString(JsFile.ctime))
      /\ q.route = RouteJpeg =>
            /\ q.res.etag = Str(Hex(q.hash))
            /\ JpegFile.ver = q.ver0 => q.res.etag = Str(Digest(JpegFile.bytes))

\* C6 witness: a 304 on GET /test.js and a 200 on GET /cache_policy.jpeg,
\* both sent
C6_Witness ==
  \E r1, r2 \in Slots :
    /\ reqs[r1].route = RouteJs /\ reqs[r1].res.ended /\ reqs[r1].res.statusCode = 304
    /\ reqs[r1].res.lm.def
    /\ reqs[r2].route = RouteJpeg /\ reqs[r2].res.ended /\ reqs[r2].res.statusCode = 200
    /\ reqs[r2].res.etag.def /\ reqs[r2].res.body # <<>>

\* C7 (under SpecSeq).  A request hit by a storage failure (file missing or
\* read error, at statSync, in the digest pass or later) is never answered
\* 304, whatever conditional header it carried.
C7_NoCacheHitOnFailure ==
  \A r \in Slots :
    LET q == reqs[r] IN
    q.err # "" => (q.res.statusCode # 304 /\ ~q.res.ended)

\* C7 witness: statSync failed for a request whose If-Modified-Since is the
\* file's timestamp, and the digest pass failed for a request whose
\* If-None-Match is the file's digest
C7_Witness ==
  \E r1, r2 \in Slots :
    /\ reqs[r1].route = RouteJs /\ reqs[r1].err # "" /\ reqs[r1].ctime = ""
    /\ reqs[r1].ims = Str(ToUTCString(JsFile.ctime))
    /\ reqs[r2].route = RouteJpeg /\ reqs[r2].err # "" /\ reqs[r2].fileHash = ""
    /\ reqs[r2].inm = Str(Digest(JpegFile.bytes))

\* C8 as claimed (under SpecSeq): a request whose resource is missing ends
\* with a 404 response, one whose read failed with an I/O error with a 500
C8_ErrorsSurfaced ==
  \A r \in Slots :
    LET q == reqs[r] IN
    /\ (q.err = "ENOENT" /\ q.pc \notin Pending) => (q.res.ended /\ q.res.statusCode = 404)
    /\ (q.err = "EIO" /\ q.pc \notin Pending) => (q.res.ended /\ q.res.statusCode = 500)

\* C9 as claimed (under SpecJpeg): a storage failure touches its own request
\* only; no other request is cut off and the server keeps running
C9_FailureIsolation ==
  /\ up
  /\ \A r \in Slots : reqs[r].pc = "aborted" => reqs[r].err # ""

\* C10 (under SpecStatic).  GET /test.css never validates: the status is
\* 200 whatever conditional headers the request carries, and a completed
\* response has Cache-Control: public,max-age=30 and the file's bytes as
\* read.
C10_ForcedCacheAlwaysFresh ==
  \A r \in Slots :
    LET q == reqs[r] IN
    q.route = RouteCss =>
      /\ q.res.statusCode = 200
      /\ q.res.ended =>
            /\ q.res.cc = Str("public,max-age=30")
            /\ fs[CssPath].ver = q.verE => q.res.body = fs[CssPath].bytes

\* C10 witness: a request that carries the file's own timestamp and digest
\* as validators is answered 200 with the body
C10_Witness ==
  \E r \in Slots :
    /\ reqs[r].route = RouteCss /\ reqs[r].res.ended
    /\ reqs[r].ims = Str(ToUTCString(fs[CssPath].ctime))
    /\ reqs[r].inm = Str(Digest(fs[CssPath].bytes))
    /\ fs[CssPath].ver = reqs[r].verE
    /\ reqs[r].res.statusCode = 200 /\ reqs[r].res.body = fs[CssPath].bytes

\* the forced-cache window the response to request r1 opened is still open
\* when request r2 arrives
WindowOpen(r1, r2) ==
  /\ r1 \in reqs[r2].prior
  /\ reqs[r1].res.cc = Str("public, max-age=" \o ToString(JpegMaxAge))
  /\ reqs[r2].at - reqs[r1].at < JpegMaxAge * TicksPerSec

\* C11 (under SpecJpeg).  On GET /cache_policy.jpeg a request whose digest
\* pass succeeded is answered 304 exactly when its If-None-Match is
\* string-equal to the digest just computed, also when it arrives inside the
\* max-age window an earlier response opened: there a stale If-None-Match is
\* answered 200.  Cache-Control: public, max-age=10 is on the 200 and on the
\* 304.
C11_ValidatorPrecedence ==
  /\ \A r \in Slots :
       LET q == reqs[r] IN
       (q.route = RouteJpeg /\ q.fileHash # "") =>
         /\ q.res.statusCode = (IF q.inm = Str(q.fileHash) THEN 304 ELSE 200)
         /\ q.res.cc = Str("public, max-age=10")
         /\ q.res.cc = Str("public, max-age=" \o ToString(JpegMaxAge))
  /\ \A r1, r2 \in Slots :
       LET q2 == reqs[r2] IN
       (/\ reqs[r1].route = RouteJpeg /\ q2.route = RouteJpeg
        /\ WindowOpen(r1, r2)
        /\ q2.fileHash # "" /\ q2.inm.def /\ q2.inm.str # q2.fileHash) =>
         q2.res.statusCode = 200

\* C11 witness: a 200 opened the window; the file was written; a request
\* that arrived inside the window with the Etag of that 200 was answered 200
\* with the new Etag and the same Cache-Control; and (in the other order of
\* the slots) a 304 carries the Cache-Control too
C11_Witness ==
  \E r1, r2 \in Slots :
    /\ reqs[r1].route = RouteJpeg /\ reqs[r2].route = RouteJpeg
    /\ WindowOpen(r1, r2)
    /\ reqs[r1].res.ended /\ reqs[r1].res.statusCode = 200
    /\ reqs[r1].ver0 < reqs[r2].ver0
    /\ reqs[r2].inm = reqs[r1].res.etag
    /\ reqs[r2].res.ended /\ reqs[r2].res.statusCode = 200
    /\ reqs[r2].res.etag # reqs[r2].inm
    /\ reqs[r2].res.cc = reqs[r1].res.cc

\* a 304 inside an open window, with Cache-Control on it
C11_Witness304 ==
  \E r1, r2 \in Slots :
    /\ reqs[r1].route = RouteJpeg /\ reqs[r2].route = RouteJpeg
    /\ WindowOpen(r1, r2)
    /\ reqs[r2].res.ended /\ reqs[r2].res.statusCode = 304
    /\ reqs[r2].res.cc = Str("public, max-age=10")

\* C12 (under SpecJs).  Timestamp idempotence: of two consecutive requests
\* to /test.js with the same If-Modified-Since, the resource not modified
\* from the arrival of the first to the end of the second, the completed
\* responses are the same (status, Last-Modified, body); and when the value
\* is the resource's timestamp as normalised, both are complete and 304.
C12_TimestampIdempotence ==
  \A r1, r2 \in Slots :
    LET q1 == reqs[r1]
        q2 == reqs[r2] IN
    (/\ q1.route = RouteJs /\ q2.route = RouteJs
     /\ r1 \in q2.prior
     /\ q1.ims = q2.ims
     /\ q2.pc \notin Pending /\ q2.verE = q1.ver0) =>
      /\ (q1.res.ended /\ q2.res.ended) =>
            /\ q1.res.statusCode = q2.res.statusCode
            /\ q1.res.lm = q2.res.lm
            /\ q1.res.body = q2.res.body
      /\ (q1.ctime # "" /\ q2.ctime # "" /\ q1.ims = Str(ToUTCString(q1.stat))) =>
            /\ q1.res.ended /\ q1.res.statusCode = 304
            /\ q2.res.ended /\ q2.res.statusCode = 304
            /\ q2.res.body = <<>>

\* C12 witness: the file was written, then two consecutive requests with
\* its new timestamp were both answered 304
C12_Witness ==
  \E r1, r2 \in Slots :
    /\ reqs[r1].route = RouteJs /\ reqs[r2].route = RouteJs
    /\ r1 \in reqs[r2].prior
    /\ reqs[r1].ver0 = 1 /\ reqs[r2].verE = 1 /\ JsFile.ver = 1
    /\ reqs[r1].ims = Str(ToUTCString(JsFile.ctime))
    /\ reqs[r2].ims = reqs[r1].ims
    /\ reqs[r1].res.statusCode = 304 /\ reqs[r2].res.statusCode = 304
    /\ reqs[r1].res.ended /\ reqs[r2].res.ended

\* two consecutive requests with the same stale value, both answered 200
\* with the same body
C12_Witness200 ==
  \E r1, r2 \in Slots :
    /\ reqs[r1].route = RouteJs /\ reqs[r2].route = RouteJs
    /\ r1 \in reqs[r2].prior
    /\ reqs[r2].verE = reqs[r1].ver0
    /\ reqs[r1].ims.def /\ reqs[r2].ims = reqs[r1].ims
    /\ reqs[r1].res.ended /\ reqs[r2].res.ended
    /\ reqs[r1].res.statusCode = 200 /\ reqs[r2].res.statusCode = 200
    /\ reqs[r2].res.body = JsFile.bytes

\* the conditional header the route of q reads
CondHeader(q) == IF q.route = RouteJs THEN q.ims ELSE q.inm

\* C13 (under SpecSeq).  On the two validated routes a request whose
\* conditional header is present but no validator is never answered 304;
\* the comparison raises nothing, so unless a storage read fails the request
\* ends with a 200 and the resource's bytes; and its completed response is
\* the very response (status, headers, body) a request without the header
\* gets from the same, unmodified resource.
C13_MalformedAsAbsent ==
  /\ \A r \in Slots :
       LET q == reqs[r] IN
       (q.route \in {RouteJs, RouteJpeg} /\ CondHeader(q) = Str(Garbage)) =>
         /\ q.res.statusCode = 200
         /\ (q.err = "" /\ q.pc \notin Pending \cup {"client_gone"}) =>
               /\ q.res.ended
               /\ fs[PathOf(q.route)].ver = q.ver0 => q.res.body = fs[PathOf(q.route)].bytes
         /\ q.err # "" => q.err \in {"ENOENT", "EIO"}
  /\ \A r1, r2 \in Slots :
       LET q1 == reqs[r1]
           q2 == reqs[r2] IN
       (/\ q1.route \in {RouteJs, RouteJpeg} /\ q2.route = q1.route
        /\ CondHeader(q1) = Str(Garbage) /\ CondHeader(q2) = Undefined
        /\ q1.res.ended /\ q2.res.ended
        /\ q1.ver0 = q1.verE /\ q2.ver0 = q2.verE /\ q1.ver0 = q2.ver0) =>
         q1.res = q2.res

\* C13 witness: on GET /test.js a request with a malformed If-Modified-Since
\* and one without the header, both answered, with the same 200 response
C13_Witness ==
  \E r1, r2 \in Slots :
    /\ reqs[r1].route = RouteJs /\ reqs[r2].route = RouteJs
    /\ reqs[r1].ims = Str(Garbage) /\ reqs[r2].ims = Undefined
    /\ reqs[r1].res.ended /\ reqs[r2].res.ended
    /\ reqs[r1].res.statusCode = 200 /\ reqs[r1].res.body = JsFile.bytes
    /\ reqs[r1].res = reqs[r2].res

\* the same on GET /cache_policy.jpeg with a malformed If-None-Match
C13_WitnessJpeg ==
  \E r1, r2 \in Slots :
    /\ reqs[r1].route = RouteJpeg /\ reqs[r2].route = RouteJpeg
    /\ reqs[r1].inm = Str(Garbage) /\ reqs[r2].inm = Undefined
    /\ reqs[r1].res.ended /\ reqs[r2].res.ended
    /\ reqs[r1].res.statusCode = 200 /\ reqs[r1].res.body = JpegFile.bytes
    /\ reqs[r1].res = reqs[r2].res

\* C14 as claimed (under SpecJpeg): a request on GET /cache_policy.jpeg opens
\* no read stream besides the one of the digest pass, and the body of a
\* completed 200 is the bytes that went through the digest
C14_SingleRead ==
  \A r \in Slots :
    LET q == reqs[r] IN
    q.route = RouteJpeg =>
      /\ q.bstream = "none"
      /\ (q.res.ended /\ q.res.statusCode = 200) => HashOf(q.res.body) = q.hash

\* C15 as claimed (under SpecJpeg): once a request is over, whichever way
\* (304, 200 sent in full, read failure, client gone), no read stream opened
\* for it is still open
C15_HandlesReleased ==
  \A r \in Slots :
    LET q == reqs[r] IN
    q.pc \in {"done", "hung", "aborted", "client_gone"} =>
      (q.hstream # "open" /\ q.bstream # "open")

\* the exit paths other than the client closing the connection
C15_ReleasedUnlessClientGone ==
  \A r \in Slots :
    LET q == reqs[r] IN
    q.pc \in {"done", "hung", "aborted"} =>
      (q.hstream # "open" /\ q.bstream # "open")

\* the response a handler alone with the resource sends: a function of the
\* route, the conditional header and the file
ResponseOf(route, hdr, f) ==
  CASE route = RouteCss ->
         End(CssHeaders(NewRes), f.bytes)
    [] route = RouteJs ->
         LET h == JsHeaders(NewRes, ToUTCString(f.ctime))
         IN  IF hdr = Str(ToUTCString(f.ctime))
               THEN End([h EXCEPT !.statusCode = 304], <<>>)
               ELSE End(h, f.bytes)
    [] OTHER ->
         LET h == JpegHeaders([NewRes EXCEPT !.ct = Str("image/jpeg")], Digest(f.bytes))
         IN  IF hdr = Str(Digest(f.bytes))
               THEN End([h EXCEPT !.statusCode = 304], <<>>)
               ELSE End(h, f.bytes)

\* C16 (under SpecMix).  Whatever requests run beside it and however their
\* steps interleave, the completed response of a request on a cached route
\* is a function of its route, of the conditional header the route reads and
\* of the resource as it was during the request: two requests with the same
\* route and header that saw the same version of the resource have the same
\* response, and that response is the one the handler sends when it runs
\* alone.
C16_RequestIndependence ==
  /\ \A r1, r2 \in Slots :
       LET q1 == reqs[r1]
           q2 == reqs[r2] IN
       (/\ q1.route \in {RouteCss, RouteJs, RouteJpeg} /\ q2.route = q1.route
        /\ (q1.route # RouteCss => CondHeader(q1) = CondHeader(q2))
        /\ q1.res.ended /\ q2.res.ended
        /\ q1.ver0 = q1.verE /\ q2.ver0 = q2.verE /\ q1.ver0 = q2.ver0) =>
         q1.res = q2.res
  /\ \A r \in Slots :
       LET q == reqs[r]
           f == fs[PathOf(q.route)] IN
       (/\ q.route \in {RouteCss, RouteJs, RouteJpeg}
        /\ q.res.ended /\ q.ver0 = q.verE /\ f.ver = q.ver0) =>
         q.res = ResponseOf(q.route, CondHeader(q), f)

\* C16 witness: two requests on GET /cache_policy.jpeg were in flight at the
\* same time (neither was over when the other arrived) and both were
\* answered in full, with the same response
C16_Witness ==
  \E r1, r2 \in Slots :
    /\ r1 # r2
    /\ reqs[r1].route = RouteJpeg /\ reqs[r2].route = RouteJpeg
    /\ r1 \notin reqs[r2].prior /\ r2 \notin reqs[r1].prior
    /\ reqs[r1].res.ended /\ reqs[r2].res.ended
    /\ reqs[r1].res.statusCode = 200 /\ reqs[r2].res.statusCode = 200
    /\ reqs[r1].ver0 = reqs[r1].verE /\ reqs[r2].ver0 = reqs[r2].verE
    /\ reqs[r1].ver0 = reqs[r2].ver0
    /\ reqs[r1].res = reqs[r2].res

\* C17 (under SpecJpeg).  The step at which a read of a request fails
\* writes nothing to its response and no later step does: the response
\* stays as it was, not ended, and what was sent of a 200 body is a prefix
\* of the resource's bytes (compared with the file while it is unmodified
\* since the body stream opened).
C17_NoWriteAfterFailure ==
  [][\A r \in Slots :
       reqs'[r].err # "" =>
         /\ reqs'[r].res = reqs[r].res
         /\ ~reqs'[r].res.ended
         /\ (reqs'[r].res.headersSent /\ JpegFile'.ver = reqs'[r].verB0) =>
               /\ Len(reqs'[r].res.body) <= Len(JpegFile'.bytes)
               /\ reqs'[r].res.body = SubSeq(JpegFile'.bytes, 1, Len(reqs'[r].res.body))]_vars

\* C17 witness: the body stream failed after one chunk of a longer body had
\* been sent, and the request is over with that one chunk
C17_Witness ==
  \E r \in Slots :
    /\ reqs[r].route = RouteJpeg /\ reqs[r].err = "EIO" /\ reqs[r].pc = "aborted"
    /\ reqs[r].res.headersSent /\ reqs[r].res.statusCode = 200
    /\ JpegFile.ver = reqs[r].verB0
    /\ Len(reqs[r].res.body) = 1 /\ Len(JpegFile.bytes) > 1

\* the validator header of a response on a validated route
ValidatorOf(route, res) == IF route = RouteJs THEN res.lm ELSE res.etag

\* C18 as claimed (under SpecJpeg): a client keeps the body and the validator
\* of a 200 and sends the validator with its next request; when that request
\* is answered 304, the body the client kept is the resource's bytes as they
\* were when the request was validated
C18_NoFalseCacheHit ==
  \A r1, r2 \in Slots :
    LET q1 == reqs[r1]
        q2 == reqs[r2]
        f == fs[PathOf(q2.route)] IN
    (/\ q2.route \in {RouteJs, RouteJpeg} /\ q1.route = q2.route
     /\ r1 \in q2.prior
     /\ q1.res.ended /\ q1.res.statusCode = 200
     /\ CondHeader(q2) = ValidatorOf(q1.route, q1.res)
     /\ q2.res.ended /\ q2.res.statusCode = 304
     /\ q2.ver0 = q2.verV /\ f.ver = q2.verV) =>
      q1.res.body = f.bytes

\* C19 as claimed (under SpecJpeg): the Etag of a completed 200 on GET
\* /cache_policy.jpeg is the digest of the body of that response, whatever
\* writes fell between the digest pass and the end of the body pass
C19_EtagDescribesBody ==
  \A r \in Slots :
    LET q == reqs[r] IN
    (q.route = RouteJpeg /\ q.res.ended /\ q.res.statusCode = 200) =>
      q.res.etag = Str(Digest(q.res.body))

\* without a write during the request the Etag does describe the body
C19_EtagDescribesBodyUnwritten ==
  \A r \in Slots :
    LET q == reqs[r] IN
    (q.route = RouteJpeg /\ q.res.ended /\ q.res.statusCode = 200 /\ q.ver0 = q.verE) =>
      q.res.etag = Str(Digest(q.res.body))

\* the headers the route of q sets are all on its response
HeadersSet(q) ==
  /\ q.res.ct.def
  /\ q.route = RouteCss => q.res.cc.def
  /\ q.route = RouteJs => q.res.lm.def
  /\ q.route = RouteJpeg => (q.res.etag.def /\ q.res.cc.def)

\* C20 as claimed (under SpecLive, fair to every pending callback): a request
\* on a cached route none of whose own reads fails is in the end answered in
\* full with a 200 or a 304, whatever the other requests do; the headers are
\* all set once the first byte goes out; and a response that has ended never
\* changes again
C20_Completion ==
  /\ [](\A r \in Slots : reqs[r].res.headersSent => HeadersSet(reqs[r]))
  /\ [][\A r \in Slots : reqs[r].res.ended => reqs'[r].res = reqs[r].res]_vars
  /\ \A r \in Slots :
       (reqs[r].pc \in Pending) ~>
         \/ reqs[r].res.ended /\ reqs[r].res.statusCode \in {200, 304}
         \/ reqs[r].err # ""

\* the same, for as long as no request at all has met a failing read
C20_CompletionUnlessAFailure ==
  /\ [](\A r \in Slots : reqs[r].res.headersSent => HeadersSet(reqs[r]))
  /\ [][\A r \in Slots : reqs[r].res.ended => reqs'[r].res = reqs[r].res]_vars
  /\ \A r \in Slots :
       (reqs[r].pc \in Pending) ~>
         \/ reqs[r].res.ended /\ reqs[r].res.statusCode \in {200, 304}
         \/ \E i \in Slots : reqs[i].err # ""

====
